---- MODULE Spec2Model ----
(***************************************************************************)
(* Model of the ragas evaluation core: the Language Model Gateway          *)
(* (LangchainLLMWrapper), the Faithfulness and Context Recall scoring      *)
(* protocols and the LangChain evaluator adapter (RagasEvaluatorChain).    *)
(***************************************************************************)
EXTENDS Integers, Sequences, FiniteSets, TLC

VARIABLES
    active,        \* which component's operation is running ("none" before any)
    gw_pc,         \* Gateway call position: idle / attempting / returned / raised
    gw_call,       \* the arguments of the Gateway call and the route it takes
    gw_attempts,   \* provider attempts made so far by the retrying wrapper
    gw_sent,       \* the provider request issued by the latest attempt
    gw_errs,       \* the provider errors raised by the failed attempts, in order
    gw_answer,     \* the generations the provider answered the latest attempt with
    gw_result,     \* LLMResult.generations handed back to the caller
    gw_exc,        \* the exception that propagates out of the call
    f_pc,          \* Faithfulness.ascore position
    f_calls,       \* Gateway calls ascore has issued, in order
    f_extract,     \* parsed reply of the statement-extraction call
    f_statements,  \* the statements submitted to verification
    f_output,      \* parsed reply of the verification call
    f_score,       \* the score ascore returns
    f_warnings,    \* the warnings ascore has logged, in order
    f_exc,         \* the exception that propagates out of ascore
    r_pc,          \* ContextRecall._ascore position
    r_is_async,    \* the is_async flag _ascore was called with
    r_calls,       \* the Gateway and loader calls _ascore has issued, in order
    r_response,    \* the value safe_load handed to _compute_score
    r_score,       \* the score _compute_score returns
    r_warnings,    \* the warnings logged by _compute_score, in order
    r_exc,         \* the exception that propagates out of _ascore
    c_pc,          \* RagasEvaluatorChain operation position
    c_op,          \* "_call" or "evaluate"
    c_mode,        \* the metric's evaluation mode
    c_inputs,      \* the keys of the _call inputs mapping
    c_examples,    \* evaluate: the keys of each example
    c_predictions, \* evaluate: the keys of each prediction
    c_scoring,     \* metric scoring calls (score_single / score) made so far
    c_exc,         \* the exception that propagates out of the operation
    t_pc,          \* TokenUsage arithmetic: idle / done
    t_ops,         \* the operands a, b, c
    t_sums,        \* a + b, b + a, (a + b) + c and a + (b + c), each a value or a raise
    p_pc,          \* parse_llm_result: idle / done
    p_llm_result,  \* the LLMResult handed to parse_llm_result
    p_usage,       \* the TokenUsage parse_llm_result returned
    k_usage_data,  \* CostCallbackHandler.usage_data
    k_observed,    \* what the parser yields for each response on_llm_end was given
    k_returned,    \* whether get_usage_data was called, and what it returned last
    np_loads,      \* how many times numpy.random has been reinitialized
    rngs           \* the generators rc.rng, new_rc.rng and the reference rng

gw_vars == <<gw_pc, gw_call, gw_attempts, gw_sent, gw_errs, gw_answer, gw_result,
            gw_exc>>

f_vars == <<f_pc, f_calls, f_extract, f_statements, f_output, f_score, f_warnings,
           f_exc>>

r_vars == <<r_pc, r_is_async, r_calls, r_response, r_score, r_warnings, r_exc>>

c_vars == <<c_pc, c_op, c_mode, c_inputs, c_examples, c_predictions, c_scoring, c_exc>>

t_vars == <<t_pc, t_ops, t_sums>>

p_vars == <<p_pc, p_llm_result, p_usage>>

k_vars == <<k_usage_data, k_observed, k_returned>>

acct_vars == <<t_vars, p_vars, k_vars>>

rc_vars == <<np_loads, rngs>>

\* ---------------------------------------------------------------- bounds
MaxN == 3
MaxPerPrompt == 2
MaxStatements == 2
MaxVerdicts == 3
MaxItems == 4
MaxRows == 2
MaxTokens == 1
MaxCompletions == 2
MaxNotifications == 2
MaxDraws == 2
MaxReloads == 1

\* ---------------------------------------------------------------- Gateway
ProviderErrors == {"Timeout", "RateLimit"}
Temperatures == {"1e-8", "0.3", "0.7"}
Stops == {"None", "stop"}

NoCall == [entry |-> "none", path |-> "none", worker |-> "none", n |-> 0,
           temperature |-> "none", stop |-> "None", supported |-> FALSE]
NoRequest == [prompts |-> 0, passes_n |-> FALSE, n |-> 0,
              temperature |-> "none", stop |-> "None"]
NoException == [kind |-> "none", last_attempt |-> "none"]

\* stop_after_attempt(6)
StopAfterAttempt == 6

\* BaseRagasLLM.get_temperature
get_temperature_above_two(n) == IF n > 2 THEN "0.3" ELSE "1e-8"
get_temperature(n) == IF n > 1 THEN "0.3" ELSE "1e-8"

\* is_multiple_completion_supported: membership of the model's class in the
\* static allow-list; the model carries the answer as a flag.
is_multiple_completion_supported(llm_supported) == llm_supported

\* The request generate_text hands to langchain_llm.generate_prompt.
GenerateTextRequest(call) ==
    LET temperature == get_temperature(call.n) IN
    IF is_multiple_completion_supported(call.supported)
    THEN [prompts |-> 1, passes_n |-> TRUE, n |-> call.n,
          temperature |-> temperature, stop |-> call.stop]
    ELSE [prompts |-> call.n, passes_n |-> FALSE, n |-> 0,
          temperature |-> temperature, stop |-> call.stop]

\* The request agenerate_text hands to langchain_llm.agenerate_prompt.
AgenerateTextRequestCallerTemperature(call) ==
    IF is_multiple_completion_supported(call.supported)
    THEN [prompts |-> 1, passes_n |-> TRUE, n |-> call.n,
          temperature |-> call.temperature, stop |-> call.stop]
    ELSE [prompts |-> call.n, passes_n |-> FALSE, n |-> 0,
          temperature |-> call.temperature, stop |-> call.stop]
AgenerateTextRequest(call) ==
    LET temperature == get_temperature(call.n) IN
    IF is_multiple_completion_supported(call.supported)
    THEN [prompts |-> 1, passes_n |-> TRUE, n |-> call.n,
          temperature |-> temperature, stop |-> call.stop]
    ELSE [prompts |-> call.n, passes_n |-> FALSE, n |-> 0,
          temperature |-> temperature, stop |-> call.stop]

\* The provider request of the call's route.
ProviderRequest(call) ==
    IF call.path = "generate_text" THEN GenerateTextRequest(call)
    ELSE AgenerateTextRequest(call)

\* What a provider answers: one completion list per submitted prompt; a
\* request that passes n gets n completions for its prompt, one that does not
\* gets lens[i] >= 1 completions for prompt i.
ProviderGenerations(req, lens) ==
    [i \in 1..req.prompts |->
        [j \in 1..(IF req.passes_n THEN req.n ELSE lens[i]) |->
            [prompt |-> i, sample |-> j]]]

\* generations = [[g[0] for g in result.generations]]
RepackNoop(gens) == gens
Repack(gens) == << [i \in 1..Len(gens) |-> gens[i][1]] >>

\* The value generate_text returns for a provider answer.
GenerateTextResult(call, gens) ==
    IF is_multiple_completion_supported(call.supported) THEN gens ELSE Repack(gens)

\* The value agenerate_text returns for a provider answer.
AgenerateTextResult(call, gens) ==
    IF is_multiple_completion_supported(call.supported) THEN gens ELSE Repack(gens)

\* The value the call's route returns for a provider answer.
GatewayResult(call, gens) ==
    IF call.path = "generate_text" THEN GenerateTextResult(call, gens)
    ELSE AgenerateTextResult(call, gens)

\* tenacity's retry(...) without reraise: when the stop condition holds the
\* wrapper raises RetryError carrying the last attempt.
RetryErrorFirst(errs) == [kind |-> "RetryError", last_attempt |-> errs[1]]
RetryError(errs) == [kind |-> "RetryError", last_attempt |-> errs[Len(errs)]]

StopSeven(attempt_number) == attempt_number >= StopAfterAttempt + 1
ShouldStop(attempt_number) == attempt_number >= StopAfterAttempt

NewCall(entry, path, worker, n, temperature, stop, supported) ==
    [entry |-> entry, path |-> path, worker |-> worker, n |-> n,
     temperature |-> temperature, stop |-> stop, supported |-> supported]

\* LangchainLLMWrapper.generate_text called directly
CallGenerateText ==
    /\ active = "none"
    /\ gw_pc = "idle"
    /\ \E n \in 1..MaxN, t \in Temperatures, s \in Stops, sup \in BOOLEAN :
        gw_call' = NewCall("generate_text", "generate_text", "caller", n, t, s, sup)
    /\ active' = "gateway"
    /\ gw_pc' = "attempting"
    /\ UNCHANGED <<gw_attempts, gw_sent, gw_errs, gw_answer, gw_result, gw_exc,
                   f_vars, r_vars, c_vars, acct_vars, rc_vars>>

\* LangchainLLMWrapper.agenerate_text called directly
CallAgenerateText ==
    /\ active = "none"
    /\ gw_pc = "idle"
    /\ \E n \in 1..MaxN, t \in Temperatures, s \in Stops, sup \in BOOLEAN :
        gw_call' = NewCall("agenerate_text", "agenerate_text", "loop", n, t, s, sup)
    /\ active' = "gateway"
    /\ gw_pc' = "attempting"
    /\ UNCHANGED <<gw_attempts, gw_sent, gw_errs, gw_answer, gw_result, gw_exc,
                   f_vars, r_vars, c_vars, acct_vars, rc_vars>>

\* BaseRagasLLM.generate: dispatch on is_async; the blocking path runs
\* generate_text on the loop's default executor.
CallGenerate ==
    /\ active = "none"
    /\ gw_pc = "idle"
    /\ \E n \in 1..MaxN, t \in Temperatures, s \in Stops, sup \in BOOLEAN,
          is_async \in BOOLEAN :
        gw_call' = NewCall("generate",
                           IF is_async THEN "agenerate_text" ELSE "generate_text",
                           IF is_async THEN "loop" ELSE "executor", n, t, s, sup)
    /\ active' = "gateway"
    /\ gw_pc' = "attempting"
    /\ UNCHANGED <<gw_attempts, gw_sent, gw_errs, gw_answer, gw_result, gw_exc,
                   f_vars, r_vars, c_vars, acct_vars, rc_vars>>

\* One attempt of the retrying wrapper whose provider request raises e.
AttemptFails ==
    /\ active = "gateway"
    /\ gw_pc = "attempting"
    /\ \E e \in ProviderErrors :
        LET errs == Append(gw_errs, e) IN
        /\ gw_attempts' = gw_attempts + 1
        /\ gw_sent' = ProviderRequest(gw_call)
        /\ gw_errs' = errs
        /\ IF ShouldStop(gw_attempts + 1)
           THEN /\ gw_pc' = "raised"
                /\ gw_exc' = RetryError(errs)
           ELSE /\ gw_pc' = "attempting"
                /\ gw_exc' = gw_exc
    /\ UNCHANGED <<active, gw_call, gw_answer, gw_result, f_vars, r_vars, c_vars, acct_vars, rc_vars>>

\* One attempt whose provider request succeeds.
AttemptSucceeds ==
    /\ active = "gateway"
    /\ gw_pc = "attempting"
    /\ LET req == ProviderRequest(gw_call) IN
       \E lens \in [1..req.prompts -> 1..MaxPerPrompt] :
        /\ gw_attempts' = gw_attempts + 1
        /\ gw_sent' = req
        /\ gw_answer' = ProviderGenerations(req, lens)
        /\ gw_result' = GatewayResult(gw_call, ProviderGenerations(req, lens))
        /\ gw_pc' = "returned"
    /\ UNCHANGED <<active, gw_call, gw_errs, gw_exc, f_vars, r_vars, c_vars, acct_vars, rc_vars>>

\* ---------------------------------------------------------------- numbers
\* A Python float result: NaN, or the exact quotient num/den in lowest terms.
NaN == [nan |-> TRUE, num |-> 0, den |-> 1]

Abs(a) == IF a < 0 THEN -a ELSE a

RECURSIVE GCD(_, _)
GCD(a, b) == IF b = 0 THEN a ELSE GCD(b, a % b)

\* a / b for integers a and b > 0
Div(a, b) ==
    LET g == GCD(Abs(a), b) IN [nan |-> FALSE, num |-> a \div g, den |-> b \div g]

\* x / b where x is an integer or NaN (NaN / b is NaN)
DivNum(x, b) == IF x.nan THEN NaN ELSE Div(x.num, b)

\* x + y on integers-or-NaN (NaN absorbs)
Plus(x, y) ==
    IF x.nan \/ y.nan THEN NaN ELSE [nan |-> FALSE, num |-> x.num + y.num, den |-> 1]

Num(a) == [nan |-> FALSE, num |-> a, den |-> 1]

\* ---------------------------------------------------------------- Faithfulness
\* Verdict texts a model may answer with.
VerdictTexts == {"Yes", "yes", "YES", "No", "no", "NO", "null", "maybe"}

\* str.lower() on the verdict texts
Lower(s) ==
    CASE s \in {"Yes", "YES", "yes"} -> "yes"
      [] s \in {"No", "NO", "no"} -> "no"
      [] OTHER -> s

\* The items a parsed verification reply may hold: a mapping with a string
\* verdict, a mapping without the key, a mapping whose verdict is not a string
\* (a number, true, null), or an item that is not a mapping at all.
VerdictItems ==
    {[kind |-> "dict", has_verdict |-> TRUE, is_str |-> TRUE, verdict |-> v] :
        v \in VerdictTexts}
    \cup {[kind |-> "dict", has_verdict |-> FALSE, is_str |-> FALSE, verdict |-> ""],
          [kind |-> "dict", has_verdict |-> TRUE, is_str |-> FALSE, verdict |-> ""],
          [kind |-> "str", has_verdict |-> FALSE, is_str |-> FALSE, verdict |-> ""]}

SeqsUpTo(S, k) == UNION {[1..m -> S] : m \in 0..k}

\* What json_loader.safe_load may hand back for the verification reply: a list
\* of items, a mapping (the empty mapping included) or a bare string.
VerifyReplies ==
    {[shape |-> "list", items |-> its] : its \in SeqsUpTo(VerdictItems, MaxVerdicts)}
    \cup {[shape |-> "dict", items |-> << >>], [shape |-> "str", items |-> << >>]}

StatementTexts(k) == [i \in 1..k |-> "st"]

\* What safe_load may hand back for the extraction reply.
ExtractReplies ==
    {[shape |-> "dict", has_statements |-> TRUE, statements |-> StatementTexts(k)] :
        k \in 0..MaxStatements}
    \cup {[shape |-> "dict", has_statements |-> FALSE, statements |-> << >>],
          [shape |-> "list", has_statements |-> FALSE, statements |-> << >>],
          [shape |-> "str", has_statements |-> FALSE, statements |-> << >>]}

NoReply == [shape |-> "none", items |-> << >>]
NoExtract == [shape |-> "none", has_statements |-> FALSE, statements |-> << >>]

\* safe_load(...).get("statements", []) : only a mapping has .get
GetStatementsRaises(reply) == reply.shape # "dict"
GetStatements(reply) == IF reply.has_statements THEN reply.statements ELSE << >>

\* statements if statements != [] else ["Nil"]
SubstituteNil(statements) == IF statements # << >> THEN statements ELSE <<"Nil">>

\* [f"statement_{i+1}: {st}" for i, st in enumerate(statements)]
Enumerate(statements) ==
    [i \in 1..Len(statements) |-> [label |-> (i - 1) + 1, text |-> statements[i]]]

\* output if isinstance(output, list) else []
AsList(reply) == IF reply.shape = "list" THEN reply.items ELSE << >>

\* dict.get("verdict", "").lower() raises AttributeError when the item is not
\* a mapping or the verdict is not a string.
ItemRaises(item) == item.kind # "dict" \/ (item.has_verdict /\ ~item.is_str)

\* verdict_score_map.get(dict.get("verdict", "").lower(), np.nan)
VerdictScoreCaseSensitive(item) ==
    LET v == IF item.has_verdict THEN item.verdict ELSE "" IN
    CASE v = "yes" -> Num(1) [] v = "no" -> Num(0) [] OTHER -> NaN
VerdictScoreZero(item) ==
    LET v == Lower(IF item.has_verdict THEN item.verdict ELSE "") IN
    CASE v = "yes" -> Num(1) [] OTHER -> Num(0)
VerdictScoreSigned(item) ==
    LET v == Lower(IF item.has_verdict THEN item.verdict ELSE "") IN
    CASE v = "yes" -> Num(1) [] v = "no" -> Num(-1) [] OTHER -> NaN
VerdictScore(item) ==
    LET v == Lower(IF item.has_verdict THEN item.verdict ELSE "") IN
    CASE v = "yes" -> Num(1) [] v = "no" -> Num(0) [] v = "null" -> NaN [] OTHER -> NaN

\* sum(... for dict in output)
RECURSIVE SumVerdicts(_)
SumVerdicts(output) ==
    IF output = << >> THEN Num(0)
    ELSE Plus(SumVerdicts(SubSeq(output, 1, Len(output) - 1)),
              VerdictScore(output[Len(output)]))

\* the scoring tail of Faithfulness.ascore
FaithfulnessScore(output) ==
    LET num_statements == Len(output) IN
    IF num_statements # 0 THEN DivNum(SumVerdicts(output), num_statements) ELSE NaN

ScoringRaises(output) == \E i \in 1..Len(output) : ItemRaises(output[i])

\* ascore up to the first Gateway call (statement extraction)
FaithBegin ==
    /\ active = "none"
    /\ f_pc = "idle"
    /\ active' = "faithfulness"
    /\ f_pc' = "extracting"
    /\ f_calls' = Append(f_calls, [step |-> "extract", statements |-> << >>])
    /\ UNCHANGED <<f_extract, f_statements, f_output, f_score, f_exc, f_warnings, gw_vars,
                   r_vars, c_vars, acct_vars, rc_vars>>

\* the Gateway call in flight exhausts its retries
FaithGatewayRaises ==
    /\ active = "faithfulness"
    /\ f_pc \in {"extracting", "verifying"}
    /\ f_pc' = "raised"
    /\ f_exc' = "RetryError"
    /\ UNCHANGED <<active, f_calls, f_extract, f_statements, f_output, f_score, f_warnings, gw_vars,
                   r_vars, c_vars, acct_vars, rc_vars>>

\* the extraction reply arrives: statements, sentinel, second Gateway call
FaithExtractReturns ==
    /\ active = "faithfulness"
    /\ f_pc = "extracting"
    /\ \E reply \in ExtractReplies :
        /\ f_extract' = reply
        /\ IF GetStatementsRaises(reply)
           THEN /\ f_pc' = "raised"
                /\ f_exc' = "AttributeError"
                /\ UNCHANGED <<f_statements, f_calls>>
           ELSE LET statements == SubstituteNil(GetStatements(reply)) IN
                /\ f_statements' = statements
                /\ f_calls' = Append(f_calls, [step |-> "verify",
                                               statements |-> Enumerate(statements)])
                /\ f_pc' = "verifying"
                /\ f_exc' = f_exc
    /\ UNCHANGED <<active, f_output, f_score, f_warnings, gw_vars,
                   r_vars, c_vars, acct_vars, rc_vars>>

\* the verification reply arrives: verdicts are mapped and the score computed
FaithVerifyReturns ==
    /\ active = "faithfulness"
    /\ f_pc = "verifying"
    /\ \E reply \in VerifyReplies :
        LET output == AsList(reply) IN
        /\ f_output' = reply
        /\ IF ScoringRaises(output)
           THEN /\ f_pc' = "raised"
                /\ f_exc' = "AttributeError"
                /\ f_score' = f_score
           ELSE /\ f_pc' = "returned"
                /\ f_score' = FaithfulnessScore(output)
                /\ f_exc' = f_exc
    /\ UNCHANGED <<active, f_calls, f_extract, f_statements, f_warnings, gw_vars,
                   r_vars, c_vars, acct_vars, rc_vars>>

FaithInit ==
    /\ f_pc = "idle"
    /\ f_calls = << >>
    /\ f_extract = NoExtract
    /\ f_statements = << >>
    /\ f_output = NoReply
    /\ f_score = NaN
    /\ f_warnings = << >>
    /\ f_exc = "none"

\* ---------------------------------------------------------------- Context Recall
\* The items of a parsed classification list: one that validates against
\* ContextRecallClassificationAnswer (statement, attributed, reason), with its
\* attributed flag, or one that fails validation.
ClassificationItems ==
    {[valid |-> TRUE, attributed |-> a] : a \in BOOLEAN}
    \cup {[valid |-> FALSE, attributed |-> FALSE]}

\* What safe_load may hand to _compute_score: a bare list, a mapping with a
\* "classification" key (holding a list or a string), a mapping without it
\* (the empty mapping included) or a bare string.
RecallResponses ==
    {[shape |-> "list", has_classification |-> FALSE, inner |-> "none", items |-> its] :
        its \in SeqsUpTo(ClassificationItems, MaxItems)}
    \cup {[shape |-> "dict", has_classification |-> TRUE, inner |-> "list", items |-> its] :
        its \in SeqsUpTo(ClassificationItems, MaxItems)}
    \cup {[shape |-> "dict", has_classification |-> TRUE, inner |-> "str", items |-> << >>],
          [shape |-> "dict", has_classification |-> FALSE, inner |-> "none", items |-> << >>],
          [shape |-> "str", has_classification |-> FALSE, inner |-> "none", items |-> << >>]}

NoResponse == [shape |-> "none", has_classification |-> FALSE, inner |-> "none",
               items |-> << >>]

\* if isinstance(response, dict) and "classification" in response:
\*     response = response["classification"]
Unwrap(response) ==
    IF response.shape = "dict" /\ response.has_classification
    THEN [shape |-> response.inner, items |-> response.items]
    ELSE [shape |-> response.shape, items |-> response.items]

\* ContextRecallClassificationAnswers.parse_obj raises ValidationError unless
\* the value is a list whose items all validate.
ValidationFails(value) ==
    value.shape # "list" \/ \E i \in 1..Len(value.items) : ~value.items[i].valid

\* 1 if item.attributed else 0
AttributedComplement(item) == IF item.attributed THEN 0 ELSE 1
Attributed(item) == IF item.attributed THEN 1 ELSE 0

RECURSIVE SumAttributed(_)
SumAttributed(items) ==
    IF items = << >> THEN 0
    ELSE SumAttributed(SubSeq(items, 1, Len(items) - 1)) + Attributed(items[Len(items)])

\* ContextRecall._compute_score: the score and the warnings it logs
ComputeScore(response) ==
    LET value == Unwrap(response) IN
    IF ValidationFails(value)
    THEN [score |-> NaN, warnings |-> <<"could_not_parse", "error">>]
    ELSE LET denom == Len(value.items)
             numerator == SumAttributed(value.items)
             score == IF denom > 0 THEN Div(numerator, denom) ELSE NaN
         IN [score |-> score,
             warnings |-> IF score.nan THEN <<"no_valid_classification">> ELSE << >>]

\* _ascore up to the Gateway call: generate is called without is_async, so
\* its default (True) applies.
RecallBegin ==
    /\ active = "none"
    /\ r_pc = "idle"
    /\ \E is_async \in BOOLEAN :
        /\ r_is_async' = is_async
        /\ r_calls' = Append(r_calls, [op |-> "generate", is_async |-> TRUE])
    /\ active' = "context_recall"
    /\ r_pc' = "generating"
    /\ UNCHANGED <<r_response, r_score, r_warnings, r_exc, gw_vars, f_vars, c_vars, acct_vars, rc_vars>>

\* the Gateway call exhausts its retries
RecallGatewayRaises ==
    /\ active = "context_recall"
    /\ r_pc = "generating"
    /\ r_pc' = "raised"
    /\ r_exc' = "RetryError"
    /\ UNCHANGED <<active, r_is_async, r_calls, r_response, r_score, r_warnings,
                   gw_vars, f_vars, c_vars, acct_vars, rc_vars>>

\* the Gateway call returns: the loader is called with the caller's flag
RecallGenerateReturns ==
    /\ active = "context_recall"
    /\ r_pc = "generating"
    /\ r_pc' = "loading"
    /\ r_calls' = Append(r_calls, [op |-> "safe_load", is_async |-> r_is_async])
    /\ UNCHANGED <<active, r_is_async, r_response, r_score, r_warnings, r_exc,
                   gw_vars, f_vars, c_vars, acct_vars, rc_vars>>

\* the loader returns: _compute_score
RecallLoadReturns ==
    /\ active = "context_recall"
    /\ r_pc = "loading"
    /\ \E response \in RecallResponses :
        LET out == ComputeScore(response) IN
        /\ r_response' = response
        /\ r_score' = out.score
        /\ r_warnings' = r_warnings \o out.warnings
    /\ r_pc' = "returned"
    /\ UNCHANGED <<active, r_is_async, r_calls, r_exc, gw_vars, f_vars, c_vars, acct_vars, rc_vars>>

RecallInit ==
    /\ r_pc = "idle"
    /\ r_is_async = FALSE
    /\ r_calls = << >>
    /\ r_response = NoResponse
    /\ r_score = NaN
    /\ r_warnings = << >>
    /\ r_exc = "none"

\* ---------------------------------------------------------------- evaluator adapter
EvaluationModes == {"qac", "qc", "qcg"}

\* EVALMODE_TO_COLUMNS[mode]
EVALMODE_TO_COLUMNS(mode) ==
    CASE mode = "qac" -> {"question", "answer", "contexts"}
      [] mode = "qc" -> {"question", "contexts"}
      [] mode = "qcg" -> {"question", "contexts", "ground_truth"}

question_key == "query"
prediction_key == "result"
context_key == "source_documents"
ground_truth_key == "ground_truth"

\* RagasEvaluatorChain._validate: "ok" or the error it raises
Validate(mode, input) ==
    LET required_columns == EVALMODE_TO_COLUMNS(mode) IN
    IF "question" \in required_columns /\ question_key \notin input THEN "ValueError"
    ELSE IF "answer" \in required_columns /\ prediction_key \notin input THEN "ValueError"
    ELSE IF "contexts" \in required_columns /\ context_key \notin input THEN "ValueError"
    ELSE "ok"

\* _call before score_single: _validate, then inputs["query"], inputs["result"]
CallPrepare(mode, inputs) ==
    IF Validate(mode, inputs) # "ok" THEN Validate(mode, inputs)
    ELSE IF question_key \notin inputs THEN "KeyError"
    ELSE IF prediction_key \notin inputs THEN "KeyError"
    ELSE "ok"

\* one pass of evaluate's loop body for row i: _validate on the merged row,
\* then example[question_key], predictions[i][prediction_key] and, for the
\* modes with contexts, predictions[i][context_key]
EvaluateRow(mode, example, prediction) ==
    IF Validate(mode, example \cup prediction) # "ok"
    THEN Validate(mode, example \cup prediction)
    ELSE IF question_key \notin example THEN "KeyError"
    ELSE IF prediction_key \notin prediction THEN "KeyError"
    ELSE IF mode \in {"qac", "qc"} /\ context_key \notin prediction THEN "KeyError"
    ELSE "ok"

\* for i, example in enumerate(examples): ...
RECURSIVE EvaluateRows(_, _, _, _)
EvaluateRows(mode, examples, predictions, i) ==
    IF i > Len(examples) THEN "ok"
    ELSE IF EvaluateRow(mode, examples[i], predictions[i]) # "ok"
         THEN EvaluateRow(mode, examples[i], predictions[i])
         ELSE EvaluateRows(mode, examples, predictions, i + 1)

\* evaluate before metric.score: the length check, then the loop
EvaluatePrepare(mode, examples, predictions) ==
    IF Len(examples) # Len(predictions) THEN "ValueError"
    ELSE EvaluateRows(mode, examples, predictions, 1)

InputKeySets == SUBSET {question_key, prediction_key, context_key, ground_truth_key}
ExampleKeySets == SUBSET {question_key, ground_truth_key}
PredictionKeySets == SUBSET {prediction_key, context_key}

\* RagasEvaluatorChain._call up to metric.score_single
ChainCall ==
    /\ active = "none"
    /\ c_pc = "idle"
    /\ \E mode \in EvaluationModes, inputs \in InputKeySets :
        LET prepared == CallPrepare(mode, inputs) IN
        /\ c_mode' = mode
        /\ c_inputs' = inputs
        /\ IF prepared = "ok"
           THEN /\ c_pc' = "scoring"
                /\ c_scoring' = c_scoring + 1
                /\ c_exc' = c_exc
           ELSE /\ c_pc' = "raised"
                /\ c_exc' = prepared
                /\ c_scoring' = c_scoring
    /\ active' = "chain"
    /\ c_op' = "_call"
    /\ UNCHANGED <<c_examples, c_predictions, gw_vars, f_vars, r_vars, acct_vars, rc_vars>>

\* RagasEvaluatorChain.evaluate up to metric.score
ChainEvaluate ==
    /\ active = "none"
    /\ c_pc = "idle"
    /\ \E mode \in EvaluationModes,
          examples \in SeqsUpTo(ExampleKeySets, MaxRows),
          predictions \in SeqsUpTo(PredictionKeySets, MaxRows) :
        LET prepared == EvaluatePrepare(mode, examples, predictions) IN
        /\ c_mode' = mode
        /\ c_examples' = examples
        /\ c_predictions' = predictions
        /\ IF prepared = "ok"
           THEN /\ c_pc' = "scoring"
                /\ c_scoring' = c_scoring + 1
                /\ c_exc' = c_exc
           ELSE /\ c_pc' = "raised"
                /\ c_exc' = prepared
                /\ c_scoring' = c_scoring
    /\ active' = "chain"
    /\ c_op' = "evaluate"
    /\ UNCHANGED <<c_inputs, gw_vars, f_vars, r_vars, acct_vars, rc_vars>>

\* the metric's scoring call returns and the operation returns its scores
ChainScoreReturns ==
    /\ active = "chain"
    /\ c_pc = "scoring"
    /\ c_pc' = "returned"
    /\ UNCHANGED <<active, c_op, c_mode, c_inputs, c_examples, c_predictions,
                   c_scoring, c_exc, gw_vars, f_vars, r_vars, acct_vars, rc_vars>>

\* the metric's scoring call raises and the error propagates
ChainScoreRaises ==
    /\ active = "chain"
    /\ c_pc = "scoring"
    /\ c_pc' = "raised"
    /\ c_exc' = "MetricError"
    /\ UNCHANGED <<active, c_op, c_mode, c_inputs, c_examples, c_predictions,
                   c_scoring, gw_vars, f_vars, r_vars, acct_vars, rc_vars>>

ChainInit ==
    /\ c_pc = "idle"
    /\ c_op = "none"
    /\ c_mode = "none"
    /\ c_inputs = {}
    /\ c_examples = << >>
    /\ c_predictions = << >>
    /\ c_scoring = 0
    /\ c_exc = "none"

\* ---------------------------------------------------------------- token accounting
Models == {"None", "m1", "m2"}

\* TokenUsage(input_tokens, output_tokens, model=None)
TokenUsage(input_tokens, output_tokens, model) ==
    [input_tokens |-> input_tokens, output_tokens |-> output_tokens, model |-> model]

TokenUsages ==
    {TokenUsage(i, o, m) : i \in 0..MaxTokens, o \in 0..MaxTokens, m \in Models}

Value(x) == [raised |-> FALSE, value |-> x]
ValueError == [raised |-> TRUE, value |-> TokenUsage(0, 0, "None")]

\* TokenUsage.__add__: the sum is built without a model argument
Add(x, y) ==
    IF x.model = y.model \/ (x.model = "None" /\ y.model = "None")
    THEN Value(TokenUsage(x.input_tokens + y.input_tokens,
                          x.output_tokens + y.output_tokens, "None"))
    ELSE ValueError

\* r + y and x + r where r is the outcome of an earlier addition
AddLeft(r, y) == IF r.raised THEN ValueError ELSE Add(r.value, y)
AddRight(x, r) == IF r.raised THEN ValueError ELSE Add(x, r.value)

\* TokenUsage.is_same_model
is_same_model(x, y) ==
    IF x.model = "None" /\ y.model = "None" THEN TRUE
    ELSE IF x.model = y.model THEN TRUE
    ELSE FALSE

\* TokenUsage.__eq__
Eq(x, y) ==
    /\ x.input_tokens = y.input_tokens
    /\ x.output_tokens = y.output_tokens
    /\ is_same_model(x, y)

NoSums == [ab |-> ValueError, ba |-> ValueError, ab_c |-> ValueError, a_bc |-> ValueError]

\* a + b, b + a, (a + b) + c and a + (b + c) on three usages
TokenAdd ==
    /\ active = "none"
    /\ t_pc = "idle"
    /\ \E a \in TokenUsages, b \in TokenUsages, c \in TokenUsages :
        /\ t_ops' = <<a, b, c>>
        /\ t_sums' = [ab |-> Add(a, b), ba |-> Add(b, a),
                      ab_c |-> AddLeft(Add(a, b), c),
                      a_bc |-> AddRight(a, Add(b, c))]
    /\ active' = "token_usage"
    /\ t_pc' = "done"
    /\ UNCHANGED <<p_vars, k_vars, gw_vars, f_vars, r_vars, c_vars, rc_vars>>

\* The key names of a provider's aggregate token_usage block.
BlockNamings == {"openai", "anthropic"}

BlockKeys(block) ==
    IF block.naming = "openai" THEN {"prompt_tokens", "completion_tokens"}
    ELSE {"input_tokens", "output_tokens"}

BlockValue(block, key) ==
    IF key \in {"prompt_tokens", "input_tokens"} THEN block.input ELSE block.output

NoBlock == [naming |-> "none", input |-> 0, output |-> 0]

\* LLMResult.llm_output: None, {}, or a non-empty mapping with or without a
\* token_usage block
LlmOutputs ==
    {[kind |-> k, has_token_usage |-> FALSE, token_usage |-> NoBlock] :
        k \in {"None", "empty", "nonempty"}}
    \cup {[kind |-> "nonempty", has_token_usage |-> TRUE,
           token_usage |-> [naming |-> nm, input |-> i, output |-> o]] :
            nm \in BlockNamings, i \in 0..MaxTokens, o \in 0..MaxTokens}

\* A completion: a plain Generation, or a ChatGeneration whose
\* message.response_metadata is {}, holds a usage block, or holds other keys.
Completions ==
    {[chat |-> FALSE, metadata |-> "empty", input |-> 0, output |-> 0]}
    \cup {[chat |-> TRUE, metadata |-> md, input |-> 0, output |-> 0] :
            md \in {"empty", "other"}}
    \cup {[chat |-> TRUE, metadata |-> "usage", input |-> i, output |-> o] :
            i \in 0..MaxTokens, o \in 0..MaxTokens}

LlmResultsUpTo(k) ==
    {[llm_output |-> lo, generations |-> gs] :
        lo \in LlmOutputs, gs \in SeqsUpTo(Completions, k)}

NoLlmResult == [llm_output |-> [kind |-> "none", has_token_usage |-> FALSE,
                                token_usage |-> NoBlock],
                generations |-> << >>]

\* get_from_dict(llm_output, "token_usage.<key>", default)
get_from_dict(llm_output, key, default) ==
    IF llm_output.has_token_usage /\ key \in BlockKeys(llm_output.token_usage)
    THEN BlockValue(llm_output.token_usage, key)
    ELSE default

\* get_from_dict(g.message.response_metadata, "usage.<key>", 0)
MetadataUsage(g, key) ==
    IF g.metadata = "usage"
    THEN (IF key = "input_tokens" THEN g.input ELSE g.output)
    ELSE 0

\* the token_usages list of the per-completion branch
RECURSIVE CompletionUsages(_)
CompletionUsages(gs) ==
    IF gs = << >> THEN << >>
    ELSE LET g == gs[Len(gs)]
             rest == CompletionUsages(SubSeq(gs, 1, Len(gs) - 1))
         IN IF g.chat /\ g.metadata # "empty"
            THEN Append(rest, TokenUsage(MetadataUsage(g, "input_tokens"),
                                         MetadataUsage(g, "output_tokens"), "None"))
            ELSE rest

\* sum(token_usages, TokenUsage(input_tokens=0, output_tokens=0))
RECURSIVE SumUsages(_, _)
SumUsages(usages, start) ==
    IF usages = << >> THEN start
    ELSE SumUsages(Tail(usages), Add(start, usages[1]).value)

\* parse_llm_result
parse_llm_result(llm_result) ==
    LET llm_output == llm_result.llm_output IN
    IF llm_output.kind = "nonempty"
    THEN TokenUsage(get_from_dict(llm_output, "input_tokens", 0),
                    get_from_dict(llm_output, "completion_tokens", 0), "None")
    ELSE IF llm_output.kind = "empty"
    THEN SumUsages(CompletionUsages(llm_result.generations), TokenUsage(0, 0, "None"))
    ELSE TokenUsage(0, 0, "None")

\* one call of parse_llm_result
ParseLlmResult ==
    /\ active = "none"
    /\ p_pc = "idle"
    /\ \E llm_result \in LlmResultsUpTo(MaxCompletions) :
        /\ p_llm_result' = llm_result
        /\ p_usage' = parse_llm_result(llm_result)
    /\ active' = "parse_llm_result"
    /\ p_pc' = "done"
    /\ UNCHANGED <<t_vars, k_vars, gw_vars, f_vars, r_vars, c_vars, rc_vars>>

\* CostCallbackHandler.on_llm_end: the body is `pass`
on_llm_end(usage_data, response) == usage_data

\* A completion is observed: on_llm_end is notified with its response.
CostOnLlmEnd ==
    /\ active \in {"none", "cost_handler"}
    /\ Len(k_observed) < MaxNotifications
    /\ \E response \in LlmResultsUpTo(1) :
        /\ k_usage_data' = on_llm_end(k_usage_data, response)
        /\ k_observed' = Append(k_observed, parse_llm_result(response))
    /\ active' = "cost_handler"
    /\ UNCHANGED <<k_returned, t_vars, p_vars, gw_vars, f_vars, r_vars, c_vars, rc_vars>>

\* CostCallbackHandler.get_usage_data
CostGetUsageData ==
    /\ active = "cost_handler"
    /\ k_returned' = [called |-> TRUE, usage_data |-> k_usage_data]
    /\ UNCHANGED <<active, k_usage_data, k_observed, t_vars, p_vars, gw_vars, f_vars,
                   r_vars, c_vars, rc_vars>>

AcctInit ==
    /\ t_pc = "idle"
    /\ t_ops = << >>
    /\ t_sums = NoSums
    /\ p_pc = "idle"
    /\ p_llm_result = NoLlmResult
    /\ p_usage = TokenUsage(0, 0, "None")
    /\ k_usage_data = << >>
    /\ k_observed = << >>
    /\ k_returned = [called |-> FALSE, usage_data |-> << >>]

\* ---------------------------------------------------------------- run configuration
\* RunConfig(seed).rng is a generator seeded with seed; default_rng(seed) is
\* the reference generator the test compares it with.
RunConfigs == {"rc", "new_rc"}
References == {"rng"}
Generators == RunConfigs \cup References

FixedSeeds == {42, 7}
None == [none |-> TRUE, value |-> 0]
Seeds == {None} \cup {[none |-> FALSE, value |-> v] : v \in FixedSeeds}

\* What the operating system hands a generator constructed with seed None. The
\* system's entropy is taken never to repeat: a value already handed out is not
\* handed out again.
OsEntropy == {3, 4, 9}

\* the bit generator: its first state for a seed, its step and its output
SeedState(value) == (3 * value + 1) % 16
Advance(state) == (5 * state + 3) % 16
Output(state) == state \div 2

NoGenerator ==
    [made |-> FALSE, seed |-> None, entropy |-> 0, after_reload |-> FALSE, state |-> 0,
     draws |-> << >>]

default_rng_reads_global(seed, entropy, loads) ==
    IF seed.none THEN entropy ELSE SeedState(seed.value + loads)

\* default_rng(seed): the first state comes from the seed alone, or from
\* operating-system entropy when the seed is None
default_rng(seed, entropy, loads) ==
    IF seed.none THEN entropy ELSE SeedState(seed.value)

UsedEntropy == {rngs[g].entropy : g \in {h \in Generators : rngs[h].made /\ rngs[h].seed.none}}

NewGenerator(seed, entropy) ==
    [made |-> TRUE, seed |-> seed, entropy |-> IF seed.none THEN entropy ELSE 0,
     after_reload |-> np_loads > 0,
     state |-> default_rng(seed, entropy, np_loads), draws |-> << >>]

\* rc = RunConfig(seed=seed)
RunConfigInit ==
    /\ active \in {"none", "run_config"}
    /\ \E g \in RunConfigs, seed \in Seeds, entropy \in OsEntropy \ UsedEntropy :
        /\ ~rngs[g].made
        /\ rngs' = [rngs EXCEPT ![g] = NewGenerator(seed, entropy)]
    /\ active' = "run_config"
    /\ UNCHANGED <<np_loads, gw_vars, f_vars, r_vars, c_vars, acct_vars>>

\* rng = default_rng(seed=seed)
DefaultRng ==
    /\ active \in {"none", "run_config"}
    /\ \E g \in References, seed \in Seeds, entropy \in OsEntropy \ UsedEntropy :
        /\ ~rngs[g].made
        /\ rngs' = [rngs EXCEPT ![g] = NewGenerator(seed, entropy)]
    /\ active' = "run_config"
    /\ UNCHANGED <<np_loads, gw_vars, f_vars, r_vars, c_vars, acct_vars>>

\* g.random(): one draw, which advances the generator
RngRandom ==
    /\ active = "run_config"
    /\ \E g \in Generators :
        /\ rngs[g].made
        /\ Len(rngs[g].draws) < MaxDraws
        /\ rngs' = [rngs EXCEPT ![g].draws = Append(@, Output(rngs[g].state)),
                                ![g].state = Advance(@)]
    /\ UNCHANGED <<active, np_loads, gw_vars, f_vars, r_vars, c_vars, acct_vars>>

\* importlib.reload(sys.modules['numpy.random'])
ReloadNumpyRandom ==
    /\ active \in {"none", "run_config"}
    /\ np_loads < MaxReloads
    /\ np_loads' = np_loads + 1
    /\ active' = "run_config"
    /\ UNCHANGED <<rngs, gw_vars, f_vars, r_vars, c_vars, acct_vars>>

RunConfigStart ==
    /\ np_loads = 0
    /\ rngs = [g \in Generators |-> NoGenerator]

GwInit ==
    /\ gw_pc = "idle"
    /\ gw_call = NoCall
    /\ gw_attempts = 0
    /\ gw_sent = NoRequest
    /\ gw_errs = << >>
    /\ gw_answer = << >>
    /\ gw_result = << >>
    /\ gw_exc = NoException

vars == <<active, gw_vars, f_vars, r_vars, c_vars, acct_vars, rc_vars>>


Init ==
    /\ active = "none"
    /\ GwInit
    /\ FaithInit
    /\ RecallInit
    /\ ChainInit
    /\ AcctInit
    /\ RunConfigStart

Next ==
    \/ CallGenerateText
    \/ CallAgenerateText
    \/ CallGenerate
    \/ AttemptFails
    \/ AttemptSucceeds
    \/ FaithBegin
    \/ FaithGatewayRaises
    \/ FaithExtractReturns
    \/ FaithVerifyReturns
    \/ RecallBegin
    \/ RecallGatewayRaises
    \/ RecallGenerateReturns
    \/ RecallLoadReturns
    \/ ChainCall
    \/ ChainEvaluate
    \/ ChainScoreReturns
    \/ ChainScoreRaises
    \/ TokenAdd
    \/ ParseLlmResult
    \/ CostOnLlmEnd
    \/ CostGetUsageData
    \/ RunConfigInit
    \/ DefaultRng
    \/ RngRandom
    \/ ReloadNumpyRandom

Spec == Init /\ [][Next]_vars

\* ---------------------------------------------------------------- claims
\* C1: for every n >= 1 and a backing model outside the multi-sample
\* allow-list, whatever entry point is used (generate_text, agenerate_text or
\* generate), the returned generations have outer dimension exactly 1 and
\* inner dimension exactly n.
C1_RepackedShape ==
    (gw_pc = "returned" /\ ~gw_call.supported) =>
        /\ Len(gw_result) = 1
        /\ Len(gw_result[1]) = gw_call.n

C1_Witness ==
    /\ gw_pc = "returned"
    /\ ~gw_call.supported
    /\ gw_call.entry = "generate"
    /\ gw_call.n = 3
    /\ gw_sent.prompts = 3

\* C2: a Gateway call against a provider that fails every request makes at
\* most 6 provider attempts, and after the 6th failure it has stopped retrying
\* and raised; no 7th attempt is made.
C2_AtMostSixAttempts ==
    /\ gw_attempts <= 6
    /\ (Len(gw_errs) = 6 => gw_pc = "raised")
    /\ (gw_pc = "raised" => gw_attempts = 6 /\ Len(gw_errs) = 6)

C2_Witness ==
    /\ gw_pc = "raised"
    /\ gw_attempts = 6

ProviderException(e) == [kind |-> e, last_attempt |-> "none"]

\* C3 as stated: when the attempts are exhausted, the exception that
\* propagates out of generate_text / agenerate_text is the provider error
\* raised by the last failed attempt.
C3_Original ==
    gw_pc = "raised" => gw_exc = ProviderException(gw_errs[Len(gw_errs)])

\* C3 as amended: when the attempts are exhausted, the caller receives a
\* RetryError that carries the last failed attempt, whose error is the one the
\* provider raised on the final (6th) attempt.
C3_RetryErrorCarriesLast ==
    gw_pc = "raised" =>
        /\ gw_exc.kind = "RetryError"
        /\ gw_exc.last_attempt = gw_errs[6]

C3_Witness ==
    /\ gw_pc = "raised"
    /\ gw_errs[1] = "Timeout"
    /\ gw_errs[6] = "RateLimit"
    /\ gw_exc.last_attempt = "RateLimit"

YesTexts == {"Yes", "yes", "YES"}
NoTexts == {"No", "no", "NO"}

IsVerdict(item, texts) ==
    item.kind = "dict" /\ item.has_verdict /\ item.is_str /\ item.verdict \in texts

VerificationDone == f_output.shape # "none"

One == [nan |-> FALSE, num |-> 1, den |-> 1]
Zero == [nan |-> FALSE, num |-> 0, den |-> 1]

\* C4: for a non-empty verdict list, all verdicts "Yes" in any letter case
\* score exactly 1.0 and all verdicts "No" score exactly 0.0; an empty verdict
\* list scores NaN, not 0.
C4_FaithfulnessBoundaries ==
    (VerificationDone /\ f_output.shape = "list") =>
        LET items == f_output.items IN
        /\ (Len(items) > 0 /\ \A i \in 1..Len(items) : IsVerdict(items[i], YesTexts))
            => (f_pc = "returned" /\ f_score = One)
        /\ (Len(items) > 0 /\ \A i \in 1..Len(items) : IsVerdict(items[i], NoTexts))
            => (f_pc = "returned" /\ f_score = Zero)
        /\ Len(items) = 0 => (f_pc = "returned" /\ f_score.nan)

C4_Witness ==
    /\ f_pc = "returned"
    /\ f_output.shape = "list"
    /\ Len(f_output.items) = 3
    /\ IsVerdict(f_output.items[1], {"Yes"})
    /\ IsVerdict(f_output.items[2], {"YES"})
    /\ IsVerdict(f_output.items[3], {"yes"})
    /\ f_score = One

\* a verdict that is a mapping but neither yes nor no: an unrecognized text or
\* a missing "verdict" key
Unrecognized(item) ==
    /\ item.kind = "dict"
    /\ \/ ~item.has_verdict
       \/ item.is_str /\ item.verdict \notin (YesTexts \cup NoTexts)

Recognized(item) == IsVerdict(item, YesTexts \cup NoTexts)

YesCount(items) == Cardinality({i \in 1..Len(items) : IsVerdict(items[i], YesTexts)})

\* the verification reply is a list of mappings with string-or-missing verdicts
WellTyped(reply) ==
    /\ reply.shape = "list"
    /\ \A i \in 1..Len(reply.items) :
        Recognized(reply.items[i]) \/ Unrecognized(reply.items[i])

\* C5 as stated: with at least one recognized verdict and some unrecognized
\* ones, the unrecognized verdicts count 0 and the score is the defined number
\* (yes verdicts) / (verdicts returned).
C5_Original ==
    (/\ VerificationDone
     /\ WellTyped(f_output)
     /\ \E i \in 1..Len(f_output.items) : Recognized(f_output.items[i])
     /\ \E i \in 1..Len(f_output.items) : Unrecognized(f_output.items[i]))
    => /\ f_pc = "returned"
       /\ ~f_score.nan
       /\ f_score.num * Len(f_output.items) = YesCount(f_output.items) * f_score.den

\* C5 as amended: an unrecognized or missing verdict contributes NaN to the
\* sum, so any such verdict makes the whole score NaN; the score is
\* (yes verdicts) / (verdicts returned) only when every verdict is yes or no.
C5_UnrecognizedPoisons ==
    (VerificationDone /\ WellTyped(f_output) /\ Len(f_output.items) > 0) =>
        /\ f_pc = "returned"
        /\ IF \E i \in 1..Len(f_output.items) : Unrecognized(f_output.items[i])
           THEN f_score.nan
           ELSE /\ ~f_score.nan
                /\ f_score.num * Len(f_output.items)
                     = YesCount(f_output.items) * f_score.den

C5_Witness ==
    /\ f_pc = "returned"
    /\ WellTyped(f_output)
    /\ Len(f_output.items) = 2
    /\ IsVerdict(f_output.items[1], {"Yes"})
    /\ IsVerdict(f_output.items[2], {"maybe"})
    /\ f_score.nan

ZeroStatementsExtracted ==
    /\ f_extract.shape = "dict"
    /\ (~f_extract.has_statements \/ f_extract.statements = << >>)

\* with zero extracted statements the sentinel is substituted and the
\* verification call is issued after the extraction call, with exactly one
\* enumerated statement
C6_SentinelVerification ==
    ZeroStatementsExtracted =>
        /\ f_statements = <<"Nil">>
        /\ Len(f_calls) = 2
        /\ f_calls[1].step = "extract"
        /\ f_calls[2] = [step |-> "verify",
                         statements |-> <<[label |-> 1, text |-> "Nil"]>>]

\* with zero extracted statements, once the verification reply has arrived
\* the metric has returned a score and not raised
C6_NoRaise ==
    (ZeroStatementsExtracted /\ VerificationDone) => f_pc = "returned"

\* C6: when extraction yields zero statements the sentinel "Nil" is
\* substituted, the verification call is still issued (after the extraction
\* call, with exactly one enumerated statement) and the metric returns a score
\* without raising.
C6_Original == C6_SentinelVerification /\ C6_NoRaise

\* the classification list _compute_score validates, when there is one
ClassificationList ==
    r_response.shape = "list"
    \/ (r_response.shape = "dict" /\ r_response.has_classification
        /\ r_response.inner = "list")

SchemaValid ==
    /\ ClassificationList
    /\ \A i \in 1..Len(r_response.items) : r_response.items[i].valid

TrueCount == Cardinality({i \in 1..Len(r_response.items) : r_response.items[i].attributed})

\* C7: for a schema-valid classification list the score is
\* (items with attributed = true) / (items); an empty list scores NaN; 4 items
\* with 3 attributed score 0.75.
C7_RecallScore ==
    (r_pc = "returned" /\ SchemaValid) =>
        LET total == Len(r_response.items) IN
        /\ total = 0 => r_score.nan
        /\ total > 0 => (~r_score.nan /\ r_score.num * total = TrueCount * r_score.den)
        /\ (total = 4 /\ TrueCount = 3) => r_score = [nan |-> FALSE, num |-> 3, den |-> 4]

C7_Witness ==
    /\ r_pc = "returned"
    /\ SchemaValid
    /\ Len(r_response.items) = 4
    /\ TrueCount = 3
    /\ r_score = [nan |-> FALSE, num |-> 3, den |-> 4]

\* the verification reply has the wrong shape: not a list, or a list with an
\* item that is not a mapping or whose verdict is not a string
WrongShapeVerification ==
    /\ VerificationDone
    /\ ~WellTyped(f_output)

\* C8: for both metrics a reply that parses to a value of the wrong shape (a
\* list where the extraction mapping is expected, a non-list verification
\* reply, non-mapping items, a non-string verdict, a classification failing
\* validation) makes the metric return NaN and never raises.
C8_Original ==
    /\ f_extract.shape \in {"list", "str"} => (f_pc = "returned" /\ f_score.nan)
    /\ WrongShapeVerification => (f_pc = "returned" /\ f_score.nan)
    /\ (r_response.shape # "none" /\ ~SchemaValid) => (r_pc = "returned" /\ r_score.nan)

InUnitInterval(score) ==
    score.nan \/ (score.den > 0 /\ 0 <= score.num /\ score.num <= score.den)

\* C9: every score Faithfulness.ascore or ContextRecall._compute_score
\* returns is a number in [0, 1] or NaN.
C9_ScoreRange ==
    /\ f_pc = "returned" => InUnitInterval(f_score)
    /\ r_pc = "returned" => InUnitInterval(r_score)

C9_Witness ==
    /\ f_pc = "returned"
    /\ f_score = [nan |-> FALSE, num |-> 1, den |-> 3]

\* the input key that carries a required column
KeyOfColumn(col) ==
    CASE col = "question" -> question_key
      [] col = "answer" -> prediction_key
      [] col = "contexts" -> context_key
      [] col = "ground_truth" -> ground_truth_key

MissingRequired(mode, keys) ==
    \E col \in EVALMODE_TO_COLUMNS(mode) : KeyOfColumn(col) \notin keys

InvalidInput ==
    \/ c_op = "_call" /\ MissingRequired(c_mode, c_inputs)
    \/ c_op = "evaluate" /\ Len(c_examples) # Len(c_predictions)
    \/ /\ c_op = "evaluate"
       /\ Len(c_examples) = Len(c_predictions)
       /\ \E i \in 1..Len(c_examples) :
            MissingRequired(c_mode, c_examples[i] \cup c_predictions[i])

\* the errors raised on the input before any scoring: _validate's ValueError
\* and, read generously, the KeyError of a direct lookup of an absent key
InputErrors == {"ValueError", "KeyError"}

\* C10: when a field the metric's evaluation mode requires is missing from a
\* row, or the examples and predictions differ in number, the adapter raises
\* an input validation error and no scoring call has been made.
C10_Original ==
    InvalidInput => (c_pc = "raised" /\ c_exc \in InputErrors /\ c_scoring = 0)

\* C14: the blocking and non-blocking Gateway paths are observably
\* equivalent: whichever route a call takes (generate_text, agenerate_text,
\* generate with is_async true or false), the provider request it issues is
\* the one generate_text and agenerate_text would both issue for those
\* arguments, and the value it returns is the one both would return for the
\* provider's answer.
C14_PathsEquivalent ==
    /\ gw_call.entry = "generate" => gw_call.path \in {"generate_text", "agenerate_text"}
    /\ gw_attempts > 0 =>
        /\ gw_sent = GenerateTextRequest(gw_call)
        /\ gw_sent = AgenerateTextRequest(gw_call)
    /\ gw_pc = "returned" =>
        /\ gw_result = GenerateTextResult(gw_call, gw_answer)
        /\ gw_result = AgenerateTextResult(gw_call, gw_answer)

C14_Witness ==
    /\ gw_pc = "returned"
    /\ gw_call.entry = "generate"
    /\ gw_call.worker = "executor"
    /\ gw_call.path = "generate_text"
    /\ ~gw_call.supported
    /\ gw_call.n = 2
    /\ gw_call.temperature = "0.7"
    /\ Len(gw_answer) = 2
    /\ Len(gw_answer[2]) = 2

\* C15: whatever temperature the caller asks for, the temperature sent to the
\* provider is 1e-8 when n = 1 and 0.3 when n > 1.
C15_TemperaturePolicy ==
    gw_attempts > 0 =>
        gw_sent.temperature = (IF gw_call.n = 1 THEN "1e-8" ELSE "0.3")

C15_Witness ==
    /\ gw_attempts > 0
    /\ gw_call.temperature = "0.7"
    /\ gw_call.n = 2
    /\ gw_sent.temperature = "0.3"

\* a metric has returned the undefined score
FaithfulnessUndefined == f_pc = "returned" /\ f_score.nan
RecallUndefined == r_pc = "returned" /\ r_score.nan

\* Context Recall logs a warning on each of its undefined results
C16_RecallWarns == RecallUndefined => r_warnings # << >>

\* C16: whenever Faithfulness or Context Recall returns the undefined score,
\* a warning has been logged during that scoring call.
C16_Original ==
    /\ FaithfulnessUndefined => f_warnings # << >>
    /\ C16_RecallWarns

\* the loader is called second, after the Gateway call, with the caller's flag
C18_LoaderSecondWithFlag ==
    /\ r_pc # "idle" => (Len(r_calls) >= 1 /\ r_calls[1].op = "generate")
    /\ r_pc \in {"loading", "returned"} =>
        (Len(r_calls) = 2 /\ r_calls[2] = [op |-> "safe_load", is_async |-> r_is_async])

\* C18: the caller's is_async flag governs every Gateway interaction of the
\* row: the classification call takes the blocking route when it is False
\* and the non-blocking route when it is True, the loader gets the same flag,
\* and the Gateway call comes first and the loader second.
C18_Original ==
    /\ r_pc # "idle" => r_calls[1] = [op |-> "generate", is_async |-> r_is_async]
    /\ C18_LoaderSecondWithFlag

\* ---------------------------------------------------------------- C11
SameModel(a, b, c) == a.model = b.model /\ b.model = c.model

\* C11 (as stated): for operands a, b, c that all carry the same model identity
\* (the same non-null model, or all None), a + b equals b + a, and (a + b) + c
\* and a + (b + c) both succeed and are equal.
C11_Original ==
    (t_pc = "done" /\ SameModel(t_ops[1], t_ops[2], t_ops[3])) =>
        /\ ~t_sums.ab.raised /\ ~t_sums.ba.raised
        /\ Eq(t_sums.ab.value, t_sums.ba.value)
        /\ ~t_sums.ab_c.raised /\ ~t_sums.a_bc.raised
        /\ Eq(t_sums.ab_c.value, t_sums.a_bc.value)

\* ---------------------------------------------------------------- C12
\* the input and output token counts a provider's aggregate block reports
BlockCounts(block) == TokenUsage(block.input, block.output, "None")

\* the per-completion input and output counts, summed over all completions
RECURSIVE CompletionTotal(_)
CompletionTotal(gs) ==
    IF gs = << >> THEN TokenUsage(0, 0, "None")
    ELSE LET rest == CompletionTotal(Tail(gs))
         IN TokenUsage(gs[1].input + rest.input_tokens,
                       gs[1].output + rest.output_tokens, "None")

HasAggregateBlock(llm_result) ==
    llm_result.llm_output.kind = "nonempty" /\ llm_result.llm_output.has_token_usage

HasCompletionUsage(llm_result) ==
    /\ llm_result.llm_output.kind = "empty"
    /\ \E i \in DOMAIN llm_result.generations :
        llm_result.generations[i].metadata = "usage"

\* C12 (as stated): parse_llm_result returns (a) the aggregate usage block's
\* input and output token counts when the response carries such a block, (b)
\* otherwise, when the aggregate is empty and completions carry usage metadata,
\* the sum of the per-completion counts, (c) otherwise zero input and output
\* tokens.
C12_Original ==
    p_pc = "done" =>
        p_usage = (IF HasAggregateBlock(p_llm_result)
                   THEN BlockCounts(p_llm_result.llm_output.token_usage)
                   ELSE IF HasCompletionUsage(p_llm_result)
                   THEN CompletionTotal(p_llm_result.generations)
                   ELSE TokenUsage(0, 0, "None"))

\* ---------------------------------------------------------------- C13
\* C13 (as stated): after any sequence of on_llm_end notifications the usage
\* data of the handler, which get_usage_data returns, totals the parsed usages
\* of all the responses observed.
C13_Original ==
    /\ k_returned.called => k_returned.usage_data = k_usage_data
    /\ Eq(SumUsages(k_usage_data, TokenUsage(0, 0, "None")),
          SumUsages(k_observed, TokenUsage(0, 0, "None")))

\* ---------------------------------------------------------------- C17
\* the draws two generators have both made, index by index
SameDraws(g, h) ==
    \A i \in 1..Len(rngs[g].draws) :
        i <= Len(rngs[h].draws) => rngs[g].draws[i] = rngs[h].draws[i]

BothDrew(g, h) ==
    /\ rngs[g].made /\ rngs[h].made
    /\ rngs[g].draws # << >> /\ rngs[h].draws # << >>

SameFixedSeed(g, h) ==
    /\ ~rngs[g].seed.none
    /\ rngs[g].seed = rngs[h].seed

\* the fixed-seed half: generators built with the same fixed seed, RunConfig's
\* or the reference, before or after a reload, draw the same sequence
FixedSeedReproducible ==
    \A g \in Generators, h \in Generators :
        (BothDrew(g, h) /\ SameFixedSeed(g, h)) => SameDraws(g, h)

====
